---- MODULE Spec2Model ----
(***************************************************************************)
(* Model of the Ansible module zabbix_user: one run of main() reconciles   *)
(* one Zabbix user account (looked up by alias) against the requested      *)
(* state, through the remote Zabbix API.                                   *)
(*                                                                         *)
(* The remote API is the external collaborator.  It is modelled as a set   *)
(* of stored user records with unique aliases and ids, a fixed table of    *)
(* user groups and media types, and a session (whose credentials the API   *)
(* client currently holds).  It stores exactly what it is sent.            *)
(***************************************************************************)
EXTENDS Integers, Sequences, FiniteSets, TLC

VARIABLES
    users,      \* the remote accounts: a set of stored user records
    pc,         \* "idle": no run in progress; "done": a run has just ended
    run,        \* the last run: its parameters, fault, result, calls, session
    last,       \* <<p>> when the previous run created an account with p, else <<>>
    cmp_gen,    \* compare_config alone: the generated request
    cmp_cur,    \* compare_config alone: the current record
    cmp_out     \* compare_config alone: "none", "differs" or "same"

vars == <<users, pc, run, last, cmp_gen, cmp_cur, cmp_out>>

\* Python's None and a supplied value.
None == <<>>
Some(v) == <<v>>

\* ------------------------------------------------------------------ bounds

\* The remote holds at most MaxUsers accounts (user ids 1..MaxUsers).
MaxUsers == 2
\* compare_config alone: lists of media entries and of groups of at most MaxList.
MaxList == 2

UserIds == {ToString(i) : i \in 1..MaxUsers}

\* ------------------------------------------------------------------ the remote

\* The operator the module logs in as (login_user).
Operator == "Admin"

\* The user groups and media types that exist remotely.
UserGroups == {[name |-> "g1", usrgrpid |-> "7"], [name |-> "g2", usrgrpid |-> "8"]}
MediaTypes == {[description |-> "mail", mediatypeid |-> "1"]}

\* A remote call is logged with the session it is made under.
Call(c, op, arg, pw) ==
    [c EXCEPT !.calls = Append(@, [op |-> op, arg |-> arg, passwd |-> pw,
                                   session |-> c.session])]

\* module.exit_json and module.fail_json end the run.
exit_json(c, changed, msg) ==
    [c EXCEPT !.res = [status |-> "exit", changed |-> changed, msg |-> msg]]
fail_json(c, msg) ==
    [c EXCEPT !.res = [status |-> "fail", changed |-> FALSE, msg |-> msg]]
\* An exception of the API client that no handler catches ends the run too.
uncaught(c, msg) ==
    [c EXCEPT !.res = [status |-> "error", changed |-> FALSE, msg |-> msg]]

Running(c) == c.res.status = "running"

\* usergroup.get / mediatype.get with a filter: the list of matches.
ApiUsergroupGet(name) ==
    LET found == {g \in UserGroups : g.name = name}
    IN  IF found = {} THEN <<>> ELSE <<CHOOSE g \in found : TRUE>>
ApiMediatypeGet(description) ==
    LET found == {m \in MediaTypes : m.description = description}
    IN  IF found = {} THEN <<>> ELSE <<CHOOSE m \in found : TRUE>>

\* user.get with an alias filter: the matching records.
ApiUserGetByAlias(c, alias) == {u \in c.users : u.alias = alias}

\* The ten scalar fields of a request and of a stored record.
Scalars == <<"alias", "autologin", "autologout", "lang", "name", "refresh",
             "rows_per_page", "surname", "theme", "type">>

\* user.create: the remote requires a password and a fresh alias, allots the
\* least free id and stores the request as sent.
FreeIds(c) == {i \in 1..MaxUsers : \A u \in c.users : u.userid # ToString(i)}
StoredFrom(request, userid, passwd) ==
    [alias |-> request.alias, autologin |-> request.autologin,
     autologout |-> request.autologout, lang |-> request.lang,
     name |-> request.name, refresh |-> request.refresh,
     rows_per_page |-> request.rows_per_page, surname |-> request.surname,
     theme |-> request.theme, type |-> request.type,
     medias |-> request.user_medias, usrgrps |-> request.usrgrps,
     passwd |-> passwd, userid |-> userid]
ApiUserCreate(c, request) ==
    LET c1 == Call(c, "user.create", request.alias, request.passwd)
    IN  IF \/ request.passwd = None
           \/ ApiUserGetByAlias(c, request.alias) # {}
           \/ FreeIds(c) = {}
        THEN uncaught(c1, "ZabbixAPIException")
        ELSE LET i == CHOOSE i \in FreeIds(c) : \A j \in FreeIds(c) : i <= j
             IN  [c1 EXCEPT !.users =
                      @ \cup {StoredFrom(request, ToString(i), request.passwd[1])}]

\* user.update: the record of request.userid takes the request's fields; its
\* password only when the request carries one.
ApiUserUpdate(c, request, userid) ==
    LET c1 == Call(c, "user.update", userid, request.passwd)
        old == {u \in c.users : u.userid = userid}
    IN  [c1 EXCEPT !.users = (@ \ old) \cup
            {StoredFrom(request, userid,
                        IF request.passwd = None THEN u.passwd ELSE request.passwd[1])
             : u \in old}]

\* user.delete([user_id]).
ApiUserDelete(c, userid) ==
    LET c1 == Call(c, "user.delete", userid, None)
    IN  [c1 EXCEPT !.users = {u \in @ : u.userid # userid}]

\* login(user, password, save=False): on success the client holds the user's
\* session; on failure it raises and the session it held is kept.  `fault` is a
\* failure that is not an authentication failure.
ApiLogin(c, user, password, fault) ==
    LET c1 == Call(c, "user.login", user, Some(password))
    IN  IF fault THEN [c |-> c1, ret |-> "error"]
        ELSE IF \E u \in c.users : u.alias = user /\ u.passwd = password
        THEN [c |-> [c1 EXCEPT !.session = user], ret |-> "ok"]
        ELSE [c |-> c1, ret |-> "32500"]
\* login(): with the saved operator credentials.
ApiRelogin(c) ==
    [Call(c, "user.login", Operator, None) EXCEPT !.session = Operator]

\* ------------------------------------------------------------------ class User

\* User.get_id: the id when exactly one account matches the alias, else None.
get_id(c, alias) ==
    LET found == ApiUserGetByAlias(c, alias)
    IN  [c |-> Call(c, "user.get", alias, None),
         ret |-> IF Cardinality(found) = 1
                 THEN Some((CHOOSE u \in found : TRUE).userid)
                 ELSE None]

\* Mutant of delete: the check-mode guard is missing.
delete_unguarded(c, check_mode, user_id) == ApiUserDelete(c, user_id)

\* User.delete.
delete(c, check_mode, user_id) ==
    IF check_mode THEN exit_json(c, TRUE, "") ELSE ApiUserDelete(c, user_id)

\* User.dump: the stored record of user_id.
dump(c, user_id) ==
    [c |-> Call(c, "user.get", user_id, None),
     ret |-> CHOOSE u \in c.users : u.userid = user_id]

user_types == [user |-> "1", admin |-> "2", super_admin |-> "3"]

\* generate_config, the loop over groups: each name is resolved to its id, and
\* the first name that does not resolve fails the run.
RECURSIVE ResolveGroups(_, _, _)
ResolveGroups(c, groups, api_groups) ==
    IF groups = <<>> THEN [c |-> c, ret |-> api_groups]
    ELSE LET c1 == Call(c, "usergroup.get", Head(groups), None)
             found == ApiUsergroupGet(Head(groups))
         IN  IF found = <<>>
             THEN [c |-> fail_json(c1, "Target user group " \o Head(groups) \o " not found"),
                   ret |-> api_groups]
             ELSE ResolveGroups(c1, Tail(groups),
                                Append(api_groups, [usrgrpid |-> found[1].usrgrpid]))

\* generate_config, the loop over medias.
RECURSIVE ResolveMedias(_, _, _)
ResolveMedias(c, medias, api_medias) ==
    IF medias = <<>> THEN [c |-> c, ret |-> api_medias]
    ELSE LET media == Head(medias)
             c1 == Call(c, "mediatype.get", media.media_type, None)
             found == ApiMediatypeGet(media.media_type)
         IN  IF found = <<>>
             THEN [c |-> fail_json(c1, "Target media type " \o media.media_type \o " not found"),
                   ret |-> api_medias]
             ELSE ResolveMedias(c1, Tail(medias),
                      Append(api_medias,
                             [mediatypeid |-> found[1].mediatypeid,
                              sendto |-> media.send_to,
                              active |-> IF media.active THEN "0" ELSE "1",
                              severity |-> media.severity,
                              period |-> media.period]))

\* User.generate_config: the request sent to the API.  `groups` is the list of
\* names, `password` is None or a supplied password.
generate_config(c, p, password, groups) ==
    LET request(api_groups, m) ==
            [c |-> m.c,
             ret |-> [alias |-> p.alias,
                      autologin |-> IF p.autologin THEN "1" ELSE "0",
                      autologout |-> p.autologout,
                      lang |-> p.lang,
                      name |-> p.name,
                      refresh |-> p.refresh,
                      rows_per_page |-> ToString(p.rows_per_page),
                      surname |-> p.surname,
                      theme |-> p.theme,
                      type |-> user_types[p.user_type],
                      user_medias |-> m.ret,
                      usrgrps |-> api_groups,
                      passwd |-> password]]
        medias(g) ==
            request(g.ret, IF Running(g.c) THEN ResolveMedias(g.c, p.medias, <<>>)
                           ELSE [c |-> g.c, ret |-> <<>>])
    IN  medias(ResolveGroups(c, groups, <<>>))

\* Mutant of check_diff_password: a probe that authenticates is reported as a
\* password that differs.
check_diff_password_inverted(c, user, password, fault) ==
    LET handle(r) ==
            IF r.ret = "32500" THEN [c |-> r.c, ret |-> FALSE]
            ELSE IF r.ret = "error"
            THEN [c |-> fail_json(r.c, "Failed to connect to Zabbix server"),
                  ret |-> FALSE]
            ELSE [c |-> ApiRelogin(r.c), ret |-> TRUE]
    IN  handle(ApiLogin(c, user, password, fault))

\* Mutant of check_diff_password: the re-login after the probe is missing.
check_diff_password_no_relogin(c, user, password, fault) ==
    LET handle(r) ==
            IF r.ret = "32500" THEN [c |-> r.c, ret |-> TRUE]
            ELSE IF r.ret = "error"
            THEN [c |-> fail_json(r.c, "Failed to connect to Zabbix server"),
                  ret |-> FALSE]
            ELSE [c |-> r.c, ret |-> FALSE]
    IN  handle(ApiLogin(c, user, password, fault))

\* User.check_diff_password: the credential probe.
check_diff_password(c, user, password, fault) ==
    LET handle(r) ==
            IF r.ret = "32500" THEN [c |-> r.c, ret |-> TRUE]
            ELSE IF r.ret = "error"
            THEN [c |-> fail_json(r.c, "Failed to connect to Zabbix server"),
                  ret |-> FALSE]
            ELSE [c |-> ApiRelogin(r.c), ret |-> FALSE]
    IN  handle(ApiLogin(c, user, password, fault))

\* ''.join(sendto)
RECURSIVE join(_)
join(sendto) == IF sendto = <<>> THEN "" ELSE Head(sendto) \o join(Tail(sendto))

\* The string compare_config makes of a media entry.
MediaKey(media) ==
    media.mediatypeid \o media.severity \o media.period \o media.active \o join(media.sendto)

GroupIds(usrgrps) == [i \in 1..Len(usrgrps) |-> usrgrps[i].usrgrpid]

\* User.compare_config: TRUE when the request differs from the stored record.
\* (Every scalar of a request and of a record is a string, which str() keeps.)
compare_config(c, generated, current, fault) ==
    IF \E i \in 1..Len(Scalars) : generated[Scalars[i]] # current[Scalars[i]]
    THEN [c |-> c, ret |-> TRUE]
    ELSE IF GroupIds(generated.usrgrps) # GroupIds(current.usrgrps)
    THEN [c |-> c, ret |-> TRUE]
    ELSE IF {MediaKey(generated.user_medias[i]) : i \in 1..Len(generated.user_medias)}
            # {MediaKey(current.medias[i]) : i \in 1..Len(current.medias)}
    THEN [c |-> c, ret |-> TRUE]
    ELSE IF generated.passwd # None
    THEN check_diff_password(c, generated.alias, generated.passwd[1], fault)
    ELSE [c |-> c, ret |-> FALSE]

\* User.create.
create(c, p, password, groups) ==
    IF p.check_mode THEN exit_json(c, TRUE, "")
    ELSE LET send(g) == IF Running(g.c) THEN ApiUserCreate(g.c, g.ret) ELSE g.c
         IN  send(generate_config(c, p, password, groups))

\* User.update.
update(c, p, user_id, password, groups, fault) ==
    LET apply(k, generated_config) ==
            IF ~Running(k.c) THEN [c |-> k.c, ret |-> FALSE]
            ELSE IF p.check_mode THEN [c |-> exit_json(k.c, k.ret, ""), ret |-> k.ret]
            ELSE IF k.ret
            THEN [c |-> ApiUserUpdate(k.c, generated_config, user_id), ret |-> TRUE]
            ELSE [c |-> k.c, ret |-> FALSE]
        compare(g, current_config) ==
            IF ~Running(g.c) THEN [c |-> g.c, ret |-> FALSE]
            ELSE apply(compare_config(g.c, g.ret, current_config, fault), g.ret)
        generate(d) == compare(generate_config(d.c, p, password, groups), d.ret)
    IN  generate(dump(c, user_id))

\* ------------------------------------------------------------------ main

\* The run's context once the operator has logged in.
Start(us) ==
    [users |-> us, session |-> Operator,
     calls |-> <<[op |-> "user.login", arg |-> Operator, passwd |-> None,
                  session |-> Operator]>>,
     res |-> [status |-> "running", changed |-> FALSE, msg |-> ""]]

\* Python's `not groups`: None or the empty list.
NotGroups(groups) == groups = None \/ groups[1] = <<>>

\* Mutant of main_absent: the account found is reported deleted without the
\* call to delete.
main_absent_no_delete(c, p, user_id) ==
    IF user_id = None
    THEN exit_json(c, FALSE, "User not found, no change: " \o p.alias)
    ELSE exit_json(c, TRUE, "Successfully deleted user " \o p.alias)

main_absent(c, p, user_id) ==
    IF user_id = None
    THEN exit_json(c, FALSE, "User not found, no change: " \o p.alias)
    ELSE LET done(d) ==
                 IF Running(d)
                 THEN exit_json(d, TRUE, "Successfully deleted user " \o p.alias)
                 ELSE d
         IN  done(delete(c, p.check_mode, user_id[1]))

\* Mutant of main_dump: an account not found is reported, not failed.
main_dump_no_fail(c, p, user_id) ==
    IF user_id = None
    THEN exit_json(c, FALSE, "User not found: " \o p.alias)
    ELSE exit_json(dump(c, user_id[1]).c, FALSE, "")

main_dump(c, p, user_id) ==
    IF user_id = None
    THEN fail_json(c, "User not found: " \o p.alias)
    ELSE exit_json(dump(c, user_id[1]).c, FALSE, "")

\* Mutant of main_present: update_password=on_create does not drop the
\* password before the update.
main_present_keeps_password(c, p, user_id, fault) ==
    IF NotGroups(p.groups)
    THEN fail_json(c, "Missing argument groups to create user " \o p.alias)
    ELSE IF user_id = None
    THEN IF p.password = Some("")
         THEN fail_json(c, "Missing argument password to create user " \o p.alias)
         ELSE LET done(k) ==
                      IF Running(k) THEN exit_json(k, TRUE, "User " \o p.alias \o " created")
                      ELSE k
              IN  done(create(c, p, p.password, p.groups[1]))
    ELSE IF p.update_password = "always" /\ p.password = Some("")
         THEN fail_json(c, "Missing argument password to update user " \o p.alias)
         ELSE LET done(u) == IF Running(u.c) THEN exit_json(u.c, u.ret, "") ELSE u.c
              IN  done(update(c, p, user_id[1], p.password, p.groups[1], fault))

main_present(c, p, user_id, fault) ==
    IF NotGroups(p.groups)
    THEN fail_json(c, "Missing argument groups to create user " \o p.alias)
    ELSE IF user_id = None
    THEN IF p.password = Some("")
         THEN fail_json(c, "Missing argument password to create user " \o p.alias)
         ELSE LET done(k) ==
                      IF Running(k) THEN exit_json(k, TRUE, "User " \o p.alias \o " created")
                      ELSE k
              IN  done(create(c, p, p.password, p.groups[1]))
    ELSE IF p.update_password = "always" /\ p.password = Some("")
         THEN fail_json(c, "Missing argument password to update user " \o p.alias)
         ELSE LET done(u) == IF Running(u.c) THEN exit_json(u.c, u.ret, "") ELSE u.c
              IN  done(update(c, p, user_id[1],
                              IF p.update_password = "on_create" THEN None ELSE p.password,
                              p.groups[1], fault))

\* main(): the context the run ends in, from the remote accounts `us`.
main(p, us, fault) ==
    LET branch(g) ==
            IF p.state = "absent" THEN main_absent(g.c, p, g.ret)
            ELSE IF p.state = "dump" THEN main_dump(g.c, p, g.ret)
            ELSE main_present(g.c, p, g.ret, fault)
    IN  branch(get_id(Start(us), p.alias))

\* ------------------------------------------------------------------ inputs

Aliases == {"bob", "amy"}
Passwords == {None, Some(""), Some("X"), Some("Y")}
Mail == [media_type |-> "mail", active |-> TRUE, severity |-> "63",
         period |-> "1-7,00:00-24:00", send_to |-> <<"user@mail.com">>]

\* What a run asks of the account: a base request, the base with one of the
\* privilege level, the group list and the media list changed, and the requests
\* whose groups are missing or empty or name a group or media type the remote
\* does not have ("gX", "pager").
Base == [user_type |-> "user", groups |-> Some(<<"g1", "g2">>), medias |-> <<>>]
Profiles ==
    {Base,
     [Base EXCEPT !.user_type = "admin"],
     [Base EXCEPT !.groups = Some(<<"g2", "g1">>)],
     [Base EXCEPT !.medias = <<Mail>>],
     [Base EXCEPT !.groups = None],
     [Base EXCEPT !.groups = Some(<<>>)],
     [Base EXCEPT !.groups = Some(<<"g1", "gX">>)],
     [Base EXCEPT !.medias = <<[Mail EXCEPT !.media_type = "pager"]>>]}

\* The parameters of a run; the argument_spec's defaults where a field is not varied.
Defaults ==
    [check_mode |-> FALSE, state |-> "present", alias |-> "bob", name |-> "",
     surname |-> "", password |-> None, update_password |-> "always",
     user_type |-> "user", groups |-> None, medias |-> <<>>, autologin |-> FALSE,
     autologout |-> "15m", lang |-> "en_GB", refresh |-> "30s",
     rows_per_page |-> 50, theme |-> "default"]

\* state=present reads every parameter; absent and dump read the alias alone.
PresentParams ==
    {[Defaults EXCEPT !.check_mode = k, !.alias = a, !.password = pw,
                      !.update_password = up, !.user_type = f.user_type,
                      !.groups = f.groups, !.medias = f.medias]
     : k \in BOOLEAN, a \in Aliases, pw \in Passwords,
       up \in {"always", "on_create"}, f \in Profiles}
AliasParams(state) ==
    {[Defaults EXCEPT !.check_mode = k, !.alias = a, !.state = state]
     : k \in BOOLEAN, a \in Aliases}

\* The records the remote can hold: what a successful create stores.
CreatedRecords ==
    {StoredFrom(g.ret, i, g.ret.passwd[1])
     : g \in {h \in {generate_config(Start({}), p, p.password, p.groups[1])
                      : p \in {q \in PresentParams :
                                  /\ ~NotGroups(q.groups)
                                  /\ q.password \notin {None, Some("")}}} :
                 Running(h.c)},
       i \in UserIds}
RemoteStates ==
    {us \in {UNION {f[a] : a \in Aliases}
             : f \in [Aliases -> {{}} \cup {{r} : r \in CreatedRecords}]} :
        \A u, v \in us : (u.alias = v.alias \/ u.userid = v.userid) => u = v}

NoRun ==
    [p |-> Defaults, fault |-> FALSE, before |-> {}, after |-> {},
     res |-> [status |-> "none", changed |-> FALSE, msg |-> ""],
     calls |-> <<>>, session |-> Operator]

\* ------------------------------------------------------------------ runs

Init ==
    /\ users \in RemoteStates
    /\ pc = "idle"
    /\ run = NoRun
    /\ last = None
    /\ cmp_gen = None /\ cmp_cur = None /\ cmp_out = "none"

\* One run of main() with parameters p.  `fault` makes the credential probe end
\* in a failure other than an authentication failure; it is an input of the runs
\* it changes.
\* A run starts when no run is in progress.
Inputs(params) == IF pc = "idle" THEN params ELSE {}

Ended(p, fault, before, c) ==
    [p |-> p, fault |-> fault, before |-> before, after |-> c.users, res |-> c.res,
     calls |-> c.calls, session |-> c.session]

Run(p, fault) ==
    /\ pc = "idle"
    /\ run' = Ended(p, fault, users, main(p, users, fault))
    /\ fault => run'.res.msg = "Failed to connect to Zabbix server"
    /\ users' = run'.after
    /\ pc' = "done"
    /\ last' = IF last = Some(p) THEN last ELSE None
    /\ UNCHANGED <<cmp_gen, cmp_cur, cmp_out>>

RunPresent == \E p \in Inputs(PresentParams), fault \in BOOLEAN : Run(p, fault)
RunAbsent == \E p \in Inputs(AliasParams("absent")) : Run(p, FALSE)
RunDump == \E p \in Inputs(AliasParams("dump")) : Run(p, FALSE)

\* The run that created an account, not simulated.
Created(r) ==
    /\ r.p.state = "present" /\ ~r.p.check_mode
    /\ r.res.status = "exit" /\ r.res.changed
    /\ \E i \in 1..Len(r.calls) : r.calls[i].op = "user.create"

\* The process exits; the next run starts from the remote as this one left it.
Exit ==
    /\ pc = "done"
    /\ pc' = "idle"
    /\ last' = IF Created(run) THEN Some(run.p) ELSE None
    /\ run' = NoRun
    /\ UNCHANGED <<users, cmp_gen, cmp_cur, cmp_out>>

Next == RunPresent \/ RunAbsent \/ RunDump \/ Exit

Spec == Init /\ [][Next]_vars

\* ------------------------------------------------------------------ compare_config alone

BoundedSeq(S, n) == UNION {[1..k -> S] : k \in 0..n}

\* Media entries as the API holds them; two of them differ only in how the
\* same characters are split into destinations.
Entry == [mediatypeid |-> "1", sendto |-> <<"a", "b">>, active |-> "0",
          severity |-> "63", period |-> "1-7,00:00-24:00"]
Entries == {Entry, [Entry EXCEPT !.sendto = <<"ab">>], [Entry EXCEPT !.active = "1"]}

\* A generated request without a password, and a stored record.
CmpRequests ==
    {[generate_config(Start({}), [Defaults EXCEPT !.user_type = ut], None, <<>>).ret
         EXCEPT !.usrgrps = [i \in 1..Len(gs) |-> [usrgrpid |-> gs[i]]],
                !.user_medias = ms]
     : ut \in {"user", "admin"}, gs \in BoundedSeq({"7", "8"}, MaxList),
       ms \in BoundedSeq(Entries, MaxList)}
CmpRecords == {StoredFrom(g, "1", "X") : g \in CmpRequests}

InitCmp ==
    /\ cmp_gen \in CmpRequests
    /\ cmp_cur \in CmpRecords
    /\ cmp_out = "none"
    /\ users = {} /\ pc = "idle" /\ run = NoRun /\ last = None

Compare ==
    /\ cmp_out = "none"
    /\ cmp_out' = IF compare_config(Start({}), cmp_gen, cmp_cur, FALSE).ret
                  THEN "differs" ELSE "same"
    /\ UNCHANGED <<users, pc, run, last, cmp_gen, cmp_cur>>

NextCmp == Compare

SpecCmp == InitCmp /\ [][NextCmp]_vars

\* ------------------------------------------------------------------ properties

Done == pc = "done"
Calls(op) == {i \in 1..Len(run.calls) : run.calls[i].op = op}
Mutating == Calls("user.create") \cup Calls("user.update") \cup Calls("user.delete")
\* The accounts the run found under its alias.
Matching == {u \in run.before : u.alias = run.p.alias}
\* The credential probes: the logins with the target alias and a password.
Probes == {i \in Calls("user.login") : run.calls[i].passwd # None}
\* The re-logins with the operator's saved credentials.
Relogins == {i \in Calls("user.login") : i > 1 /\ run.calls[i].passwd = None}
\* The groups of the run's list that the remote does not have.
MissingGroups ==
    IF run.p.groups = None THEN {}
    ELSE {run.p.groups[1][i] : i \in {j \in 1..Len(run.p.groups[1]) :
                                       ApiUsergroupGet(run.p.groups[1][j]) = <<>>}}

\* C1: a run in check mode calls none of user.create, user.update and
\* user.delete, and leaves the remote accounts as it found them.
C1_CheckModeNoMutation ==
    (Done /\ run.p.check_mode) => (Mutating = {} /\ users = run.before)

C1_Witness ==
    /\ Done /\ run.p.check_mode /\ run.p.state = "absent"
    /\ Matching # {} /\ run.res.status = "exit" /\ run.res.changed

\* C2: a run in check mode (here one that supplies a password) reports what the
\* same run without check mode reports from the same remote accounts: the same
\* changed value when that run succeeds, a failure when it fails.
C2_CheckModeSameOutcome ==
    (Done /\ run.p.check_mode /\ run.p.password # None) =>
        LET real == main([run.p EXCEPT !.check_mode = FALSE], run.before, run.fault).res
        IN  IF real.status = "exit"
            THEN run.res.status = "exit" /\ run.res.changed = real.changed
            ELSE run.res.status # "exit"

\* C3: state=absent, not in check mode: with no account under the alias the run
\* mutates nothing and reports changed=false; with exactly one it deletes that
\* account and no other and reports changed=true.
C3_Absent ==
    (Done /\ run.p.state = "absent" /\ ~run.p.check_mode) =>
        /\ Matching = {} =>
              /\ Mutating = {} /\ users = run.before
              /\ run.res.status = "exit" /\ ~run.res.changed
        /\ Cardinality(Matching) = 1 =>
              /\ users = run.before \ Matching
              /\ Mutating = Calls("user.delete") /\ Cardinality(Mutating) = 1
              /\ \A i \in Mutating : \A u \in Matching : run.calls[i].arg = u.userid
              /\ run.res.status = "exit" /\ run.res.changed

C3_Witness ==
    /\ Done /\ run.p.state = "absent" /\ ~run.p.check_mode
    /\ Cardinality(Matching) = 1 /\ Cardinality(run.before) = 2
    /\ Cardinality(users) = 1 /\ run.res.changed

\* C4: state=present with a group the remote does not have (and a password
\* that passes main's own validation): the run fails with the message naming
\* the first such group and calls neither user.create nor user.update, whether
\* or not the account exists and whether or not the run is in check mode.
C4_MissingGroupFails ==
    (Done /\ run.p.state = "present" /\ MissingGroups # {}
          /\ run.p.password # Some("")) =>
        /\ run.res.status = "fail"
        /\ \E g \in MissingGroups :
              run.res.msg = "Target user group " \o g \o " not found"
        /\ Calls("user.create") = {} /\ Calls("user.update") = {}

\* C5: state=present with no account under the alias: when the groups are
\* missing or empty, or the password is not supplied or is empty, the run
\* fails and user.create is not called.
C5_CreateNeedsGroupsAndPassword ==
    (Done /\ run.p.state = "present" /\ Matching = {}
          /\ (NotGroups(run.p.groups) \/ run.p.password \in {None, Some("")})) =>
        (run.res.status = "fail" /\ Calls("user.create") = {})

\* C6: state=dump on an alias with no account fails with the not-found
\* message, calls none of user.create, user.update and user.delete, and leaves
\* the remote accounts as it found them.
C6_DumpNotFound ==
    (Done /\ run.p.state = "dump" /\ Matching = {}) =>
        /\ run.res.status = "fail"
        /\ run.res.msg = "User not found: " \o run.p.alias
        /\ Mutating = {} /\ users = run.before

C6_Witness ==
    /\ Done /\ run.p.state = "dump" /\ Matching = {} /\ run.before # {}
    /\ run.res.status = "fail"

\* The entries of a media list as tuples of their five fields.
MediaTuples(medias) ==
    {<<medias[i].mediatypeid, medias[i].severity, medias[i].period,
       medias[i].active, medias[i].sendto>> : i \in 1..Len(medias)}

\* C7: for a request without a password, compare_config answers "differs"
\* exactly when one of the ten scalar fields differs, or the list of group ids
\* differs, or the set of media entries, each the tuple of its five fields,
\* differs.
C7_DiffersIff ==
    cmp_out # "none" =>
        (cmp_out = "differs" <=>
            \/ \E i \in 1..Len(Scalars) : cmp_gen[Scalars[i]] # cmp_cur[Scalars[i]]
            \/ GroupIds(cmp_gen.usrgrps) # GroupIds(cmp_cur.usrgrps)
            \/ MediaTuples(cmp_gen.user_medias) # MediaTuples(cmp_cur.medias))

\* C8: state=present, update_password=on_create, the account exists: no
\* credential probe is made, the result is the same whatever password is
\* supplied, a user.update sent carries no password, and the stored password
\* stays.
C8_OnCreateIgnoresPassword ==
    (Done /\ run.p.state = "present" /\ run.p.update_password = "on_create"
          /\ Matching # {}) =>
        /\ Probes = {}
        /\ \A i \in Calls("user.update") : run.calls[i].passwd = None
        /\ \A pw \in Passwords :
              main([run.p EXCEPT !.password = pw], run.before, FALSE).res = run.res
        /\ \A u \in users : u.alias = run.p.alias =>
              \E v \in Matching : v.passwd = u.passwd

C8_Witness ==
    /\ Done /\ run.p.state = "present" /\ run.p.update_password = "on_create"
    /\ ~run.p.check_mode /\ Matching # {} /\ Calls("user.update") # {}
    /\ run.p.password # None /\ \A v \in Matching : Some(v.passwd) # run.p.password

\* The media types of the run's list that the remote does not have.
MissingMedias ==
    {i \in 1..Len(run.p.medias) : ApiMediatypeGet(run.p.medias[i].media_type) = <<>>}

\* C9: state=present, not in check mode, groups and a password supplied (all
\* names resolving), no account under the alias: the run creates the account
\* and reports changed=true; the next run, with the same parameters and
\* update_password=always, makes the credential probe and, the probe
\* authenticating, sends no user.update and reports changed=false.
C9_SecondRunUnchanged ==
    /\ (Done /\ run.p.state = "present" /\ ~run.p.check_mode /\ Matching = {}
             /\ ~NotGroups(run.p.groups) /\ run.p.password \notin {None, Some("")}
             /\ MissingGroups = {} /\ MissingMedias = {}) =>
           (Created(run) /\ \E u \in users : u.alias = run.p.alias)
    /\ (Done /\ last # None /\ run.p.update_password = "always" /\ ~run.fault) =>
           /\ last = Some(run.p)
           /\ run.res.status = "exit" /\ ~run.res.changed
           /\ Probes # {} /\ Mutating = {} /\ users = run.before

C9_Witness ==
    /\ Done /\ last = Some(run.p) /\ run.p.update_password = "always" /\ ~run.fault
    /\ run.p.medias # <<>> /\ Probes # {} /\ ~run.res.changed

\* What compare_config answers for the run's request without its password.
OthersEqual ==
    /\ Matching # {} /\ ~NotGroups(run.p.groups)
    /\ LET g == generate_config(Start(run.before), run.p, None, run.p.groups[1])
       IN  /\ Running(g.c)
           /\ ~compare_config(g.c, g.ret, CHOOSE u \in Matching : TRUE, FALSE).ret
\* The probe at i authenticated.
ProbeOk(i) ==
    /\ ~run.fault
    /\ \E u \in run.before :
          u.alias = run.calls[i].arg /\ Some(u.passwd) = run.calls[i].passwd

====
